---- MODULE Spec2Model ----
(***************************************************************************)
(* Model of the ADXL345 SPI driver (src/ADXL345_spi.py).                   *)
(*                                                                         *)
(* The pure conversions (xyzbytes2g, the frame stripping, the FIFO-control *)
(* byte) are operators; the driver object, the chip-select line, the       *)
(* device registers and the position of the running method are the state.  *)
(***************************************************************************)
EXTENDS Integers, Sequences, FiniteSets, TLC

VARIABLES
  in_buf,          \* argument handed to a pure conversion
  out,             \* its result: [done, val]
  pc,              \* position of the running method, "idle" between calls
  op,              \* the running (or last) top-level call: [name, arg, wm]
  cfg,             \* the running configurator call, NoCfg when none
  cs,              \* chip-select pin: 1 idle, 0 asserted
  bus,             \* phase of the bus transaction: "idle", "low", "done"
  rx,              \* value extracted from the last status read
  tracked,         \* the object's attributes power_mode .. watermark_level
  reg,             \* device registers as last written
  n_exp_meas,      \* target count of the running acquisition
  n_act_meas,      \* accepted count
  buf,             \* raw buffer of the running acquisition
  T,               \* timestamp list of the running acquisition
  t_start, t_stop, \* ticks_us() readings around the loop
  now,             \* last ticks_us() reading of the call
  left,            \* iterations left of the batch-drain for loop
  outcome,         \* of the last call: "none", "returned" or the error raised
  ret,             \* value returned by the last call
  pre,             \* attributes at the start of the call
  wlog,            \* bus writes completed in the call, <<register, byte>> each
  nfetch,          \* sample-fetch transfers completed in the call
  npos, nneg,      \* positive / negative flag polls of the call (nneg saturates)
  set_measure      \* the call has written measure to the power register

pureVars   == <<in_buf, out>>
driverVars == <<pc, op, cfg, cs, bus, rx, tracked, reg, n_exp_meas, n_act_meas,
                buf, T, t_start, t_stop, now, left, outcome, ret, pre, wlog,
                nfetch, npos, nneg, set_measure>>
vars       == <<in_buf, out, pc, op, cfg, cs, bus, rx, tracked, reg, n_exp_meas,
                n_act_meas, buf, T, t_start, t_stop, now, left, outcome, ret,
                pre, wlog, nfetch, npos, nneg, set_measure>>

----------------------------------------------------------------------------
(* Program constants *)

bytes_per_3axes    == 6
regaddr_freq       == 44
regaddr_pwr        == 45
regaddr_grange     == 49
regaddr_fifoctl    == 56
DefaultWatermark   == 16

power_modes == [m \in {"standby", "measure"} |-> IF m = "standby" THEN 0 ELSE 8]

g_ranges == (2 :> 0) @@ (4 :> 1) @@ (8 :> 16) @@ (16 :> 17)

\* the keys are the rates in hundredths of a hertz (1.56 Hz is 156)
device_sampling_rates ==
  (156 :> 4) @@ (313 :> 5) @@ (625 :> 6) @@ (1250 :> 7) @@ (2500 :> 8) @@
  (5000 :> 9) @@ (10000 :> 10) @@ (20000 :> 11) @@ (40000 :> 12) @@
  (80000 :> 13) @@ (160000 :> 14) @@ (320000 :> 15)

----------------------------------------------------------------------------
(* Bounds *)

MaxSamples      == 7    \* samples in a buffer handed to the decoder
MaxFrames       == 3    \* frames in a buffer handed to the frame stripping
MaxWatermarkArg == 33   \* largest watermark argument a caller passes
MaxTarget       == 3    \* largest target count of an acquisition
MaxDuration     == 2    \* longest acquisition_time, in seconds
MaxFifoCount    == 3    \* largest FIFO count the device reports
MaxNegPolls     == 2    \* negative polls counted (the count saturates)
TicksPeriod     == 2    \* ticks_us() readings wrap at this value

----------------------------------------------------------------------------
(* Pure conversions *)

Min(a, b) == IF a < b THEN a ELSE b

\* ustruct.unpack('<HHH', b): three little-endian unsigned 16-bit words
UnpackHHH(b) == <<b[1] + 256 * b[2], b[3] + 256 * b[4], b[5] + 256 * b[6]>>

\* the rule with the comparison x < 32767
NegativeRule_OffByOne(w) == IF w < 32767 THEN w ELSE w - 65536

\* the negative values rule: x if x <= 32767 else x - 65536
NegativeRule(w) == IF w <= 32767 THEN w ELSE w - 65536

\* xyzbytes2g: the tuples unpacked are those at i in range(n_act_meas) with
\* i % bytes_per_3axes == 0, each from buf[i : i + bytes_per_3axes]; unpacking
\* the zip of no tuple into three names raises ValueError.
xyzbytes2g(b) ==
  LET n      == Len(b) \div bytes_per_3axes
      starts == {i \in 0..(n - 1) : i % bytes_per_3axes = 0}
      cnt    == Cardinality(starts)
      tup(j) == UnpackHHH(SubSeq(b, bytes_per_3axes * (j - 1) + 1,
                                    Min(bytes_per_3axes * (j - 1) + bytes_per_3axes, Len(b))))
  IN  IF cnt = 0
      THEN [status |-> "ValueError", x |-> <<>>, y |-> <<>>, z |-> <<>>]
      ELSE [status |-> "ok",
            x |-> [j \in 1..cnt |-> NegativeRule(tup(j)[1])],
            y |-> [j \in 1..cnt |-> NegativeRule(tup(j)[2])],
            z |-> [j \in 1..cnt |-> NegativeRule(tup(j)[3])]]

\* keeps the bytes whose index is 1 modulo the frame size instead
remove_first_bytes_Shifted(b) ==
  LET keep == {i \in 0..(Len(b) - 1) : i % (bytes_per_3axes + 1) # 1}
      RECURSIVE pick(_)
      pick(i) == IF i >= Len(b) THEN <<>>
                 ELSE (IF i \in keep THEN <<b[i + 1]>> ELSE <<>>) \o pick(i + 1)
  IN  pick(0)

\* remove_first_bytes_from_bytearray_of_many_transactions:
\* [b for i, b in enumerate(buf) if i % (bytes_per_3axes + 1) != 0]
remove_first_bytes(b) ==
  LET RECURSIVE pick(_)
      pick(i) == IF i >= Len(b) THEN <<>>
                 ELSE (IF i % (bytes_per_3axes + 1) # 0 THEN <<b[i + 1]>> ELSE <<>>)
                      \o pick(i + 1)
  IN  pick(0)

----------------------------------------------------------------------------
(* FIFO-control byte *)

Abs(n) == IF n < 0 THEN 0 - n ELSE n

\* bin(n).split('b')[1]: the binary digits of |n|, most significant first
\* (bin(-3) is '-0b11', whose part after the 'b' is '11')
RECURSIVE BinDigits(_)
BinDigits(n) == IF n < 2 THEN <<n>> ELSE BinDigits(n \div 2) \o <<n % 2>>

\* '{:>5}'.format(s).replace(' ', '0'): left-padded to width 5, never cut
Pad5(s) == IF Len(s) >= 5 THEN s ELSE [i \in 1..(5 - Len(s)) |-> 0] \o s

\* int(bstr, 2)
RECURSIVE ParseBin(_)
ParseBin(s) == IF s = <<>> THEN 0
               ELSE 2 * ParseBin(SubSeq(s, 1, Len(s) - 1)) + s[Len(s)]

\* the stream tag written as '010'
StreamByte_WrongTag(w) == ParseBin(<<0, 1, 0>> \o Pad5(BinDigits(Abs(w))))

\* '0b' + '100' + the padded watermark digits, as an integer
StreamByte(w) == ParseBin(<<1, 0, 0>> \o Pad5(BinDigits(Abs(w))))

----------------------------------------------------------------------------
(* Driver state *)

NoCfg  == [name |-> "none", mode |-> <<>>, wm |-> <<>>, byte |-> 0]
NoOp   == [name |-> "none", arg |-> <<>>, wm |-> <<>>]
NoRet  == [buf |-> <<>>, T |-> <<>>]

\* __init__ creates none of the attributes power_mode .. watermark_level:
\* <<>> is an attribute that does not exist, <<v>> one that holds v
NoAttrs == [power_mode |-> <<>>, g_range |-> <<>>, sampling_rate |-> <<>>,
            fifo_mode |-> <<>>, watermark_level |-> <<>>]

Registers == {regaddr_freq, regaddr_pwr, regaddr_grange, regaddr_fifoctl}

locals == <<n_exp_meas, n_act_meas, buf, T, t_start, t_stop, now, left>>
ghosts == <<wlog, nfetch, npos, nneg, set_measure>>

ResetLocals ==
  /\ n_exp_meas' = 0 /\ n_act_meas' = 0 /\ buf' = <<>> /\ T' = <<>>
  /\ t_start' = 0 /\ t_stop' = 0 /\ now' = 0 /\ left' = 0

PureIdle == in_buf = <<>> /\ out = [done |-> FALSE, val |-> <<>>]

\* state after __init__ and init_spi (cs = Pin(.., value=1)); the device's
\* registers hold whatever an earlier session left in them
DriverInit ==
  /\ pc = "idle" /\ op = NoOp /\ cfg = NoCfg /\ cs = 1 /\ bus = "idle" /\ rx = 0
  /\ tracked = NoAttrs
  /\ reg = [r \in Registers |-> <<>>]
  /\ n_exp_meas = 0 /\ n_act_meas = 0 /\ buf = <<>> /\ T = <<>>
  /\ t_start = 0 /\ t_stop = 0 /\ now = 0 /\ left = 0
  /\ outcome = "none" /\ ret = NoRet /\ pre = NoAttrs
  /\ wlog = <<>> /\ nfetch = 0 /\ npos = 0 /\ nneg = 0 /\ set_measure = FALSE

\* an exception leaves the method: nothing of the method runs after it
Raise(e) ==
  /\ pc' = "idle" /\ cfg' = NoCfg /\ bus' = "idle" /\ rx' = 0
  /\ outcome' = e /\ ret' = NoRet
  /\ ResetLocals
  /\ UNCHANGED <<in_buf, out, op, cs, tracked, reg, pre, ghosts>>

\* the top-level call returns v
Return(v) ==
  /\ pc' = "idle" /\ cfg' = NoCfg /\ bus' = "idle" /\ rx' = 0
  /\ outcome' = "returned" /\ ret' = v
  /\ ResetLocals

\* a caller invokes method name
StartCall(name, arg, wm, first) ==
  /\ pc = "idle"
  /\ op' = [name |-> name, arg |-> arg, wm |-> wm]
  /\ pc' = first
  /\ outcome' = "none" /\ ret' = NoRet /\ pre' = tracked
  /\ wlog' = <<>> /\ nfetch' = 0 /\ npos' = 0 /\ nneg' = 0 /\ set_measure' = FALSE
  /\ UNCHANGED <<in_buf, out, cfg, cs, bus, rx, tracked, reg, locals>>

----------------------------------------------------------------------------
(* Configurator calls *)

FifoSite(m) == [name |-> "set_fifo_mode", mode |-> <<m>>, wm |-> <<DefaultWatermark>>]
PowerSite(m) == [name |-> "set_power_mode", mode |-> <<m>>, wm |-> <<>>]

\* the configurator call made at position p, with its arguments
CallSite(p) ==
  CASE p = "call"        -> [name |-> op.name, mode |-> op.arg, wm |-> op.wm]
    [] p = "rcx_bypass"  -> FifoSite("bypass")
    [] p = "rcx_measure" -> PowerSite("measure")
    [] p = "rcx_standby" -> PowerSite("standby")
    [] p = "rcf_stream"  -> FifoSite("stream")
    [] p = "rcf_measure" -> PowerSite("measure")
    [] p = "rcf_clear1"  -> FifoSite("bypass")
    [] p = "rcf_clear2"  -> FifoSite("stream")
    [] p = "rcf_standby" -> PowerSite("standby")
    [] OTHER             -> NoCfg

\* read_continuos_xyz_fromfifo flushes the FIFO before it sets measure
AfterCfg_FlushFirst(p) ==
  CASE p = "rcx_bypass"  -> "rcx_measure"
    [] p = "rcx_measure" -> "rcx_while"
    [] p = "rcx_standby" -> "rcx_final"
    [] p = "rcf_stream"  -> "rcf_clear1"
    [] p = "rcf_clear1"  -> "rcf_clear2"
    [] p = "rcf_clear2"  -> "rcf_measure"
    [] p = "rcf_measure" -> "rcf_tstart"
    [] p = "rcf_standby" -> "rcf_final"
    [] OTHER             -> "idle"

\* where the method goes on once the configurator has returned
AfterCfg(p) ==
  CASE p = "rcx_bypass"  -> "rcx_measure"
    [] p = "rcx_measure" -> "rcx_while"
    [] p = "rcx_standby" -> "rcx_final"
    [] p = "rcf_stream"  -> "rcf_measure"
    [] p = "rcf_measure" -> "rcf_clear1"
    [] p = "rcf_clear1"  -> "rcf_clear2"
    [] p = "rcf_clear2"  -> "rcf_tstart"
    [] p = "rcf_standby" -> "rcf_final"
    [] OTHER             -> "idle"

\* every configurator writes to the sampling-rate register
RegOf_OneRegister(name) == regaddr_freq

\* the register a configurator writes
RegOf(name) ==
  CASE name = "set_power_mode"    -> regaddr_pwr
    [] name = "set_g_range"       -> regaddr_grange
    [] name = "set_sampling_rate" -> regaddr_freq
    [] OTHER                      -> regaddr_fifoctl

AtSite(name) == bus = "idle" /\ cfg = NoCfg /\ CallSite(pc).name = name

\* write(): cs.value(0), with the byte to send
BeginWrite(site, b) ==
  /\ cfg' = [name |-> site.name, mode |-> site.mode, wm |-> site.wm, byte |-> b]
  /\ cs' = 0
  /\ bus' = "low"

set_power_mode ==
  /\ AtSite("set_power_mode")
  /\ LET m == CallSite(pc).mode[1] IN
       IF m \notin DOMAIN power_modes
       THEN Raise("KeyError")
       ELSE /\ BeginWrite(CallSite(pc), power_modes[m])
            /\ UNCHANGED <<in_buf, out, pc, op, rx, tracked, reg, locals, outcome,
                           ret, pre, ghosts>>

set_g_range ==
  /\ AtSite("set_g_range")
  /\ LET g == CallSite(pc).mode[1] IN
       IF g \notin DOMAIN g_ranges
       THEN Raise("KeyError")
       ELSE /\ BeginWrite(CallSite(pc), g_ranges[g])
            /\ UNCHANGED <<in_buf, out, pc, op, rx, tracked, reg, locals, outcome,
                           ret, pre, ghosts>>

\* assigns the attribute before the table is looked up
set_sampling_rate_AssignFirst ==
  /\ AtSite("set_sampling_rate")
  /\ LET sr == CallSite(pc).mode[1] IN
       IF sr \notin DOMAIN device_sampling_rates
       THEN /\ pc' = "idle" /\ cfg' = NoCfg /\ bus' = "idle" /\ rx' = 0
            /\ outcome' = "KeyError" /\ ret' = NoRet
            /\ ResetLocals
            /\ tracked' = [tracked EXCEPT !.sampling_rate = <<sr>>]
            /\ UNCHANGED <<in_buf, out, op, cs, reg, pre, ghosts>>
       ELSE /\ BeginWrite(CallSite(pc), device_sampling_rates[sr])
            /\ UNCHANGED <<in_buf, out, pc, op, rx, tracked, reg, locals, outcome,
                           ret, pre, ghosts>>

set_sampling_rate ==
  /\ AtSite("set_sampling_rate")
  /\ LET sr == CallSite(pc).mode[1] IN
       IF sr \notin DOMAIN device_sampling_rates
       THEN Raise("KeyError")
       ELSE /\ BeginWrite(CallSite(pc), device_sampling_rates[sr])
            /\ UNCHANGED <<in_buf, out, pc, op, rx, tracked, reg, locals, outcome,
                           ret, pre, ghosts>>

\* the control byte set_fifo_mode computes: any mode but 'bypass' is stream
FifoModeByte(mode, w) == IF mode = "bypass" THEN 0 ELSE StreamByte(w)

set_fifo_mode ==
  /\ AtSite("set_fifo_mode")
  /\ LET site == CallSite(pc) IN
       /\ tracked' = [tracked EXCEPT !.fifo_mode = site.mode,
                                     !.watermark_level = site.wm]
       /\ BeginWrite(site, FifoModeByte(site.mode[1], site.wm[1]))
  /\ UNCHANGED <<in_buf, out, pc, op, rx, reg, locals, outcome, ret, pre, ghosts>>

set_watermark_level ==
  /\ AtSite("set_watermark_level")
  /\ LET site == CallSite(pc) IN
       /\ tracked' = [tracked EXCEPT !.fifo_mode = <<"stream">>,
                                     !.watermark_level = site.wm]
       /\ BeginWrite(site, StreamByte(site.wm[1]))
  /\ UNCHANGED <<in_buf, out, pc, op, rx, reg, locals, outcome, ret, pre, ghosts>>

\* write(): self.spi.write(bytearray((regaddr, the_byte))). A byte outside
\* 0..255 is cut to its low 8 bits or refused (bytearray_refused), as the
\* firmware build has it.
spi_write ==
  /\ bus = "low" /\ cfg # NoCfg
  /\ LET b == cfg.byte % 256
         r == RegOf(cfg.name)
     IN  /\ reg' = [reg EXCEPT ![r] = <<b>>]
         /\ wlog' = Append(wlog, <<r, b>>)
         /\ set_measure' = (set_measure \/ (r = regaddr_pwr /\ b = power_modes["measure"]))
  /\ bus' = "done"
  /\ UNCHANGED <<in_buf, out, pc, op, cfg, cs, rx, tracked, locals, outcome,
                 ret, pre, nfetch, npos, nneg>>

\* bytearray((regaddr, the_byte)) refused: the byte is not in 0..255
bytearray_refused ==
  /\ bus = "low" /\ cfg # NoCfg
  /\ cfg.byte \notin 0..255
  /\ Raise("ValueError")

\* an exception out of the SPI call itself, or delivered while it runs
\* (OSError, MemoryError of the allocating read, KeyboardInterrupt)
spi_fault ==
  /\ bus = "low"
  /\ Raise("BusError")

\* write(): cs.value(1) and return; then the rest of the configurator
write_return ==
  /\ bus = "done" /\ cfg # NoCfg
  /\ cs' = 1
  /\ tracked' =
       CASE cfg.name = "set_power_mode"    -> [tracked EXCEPT !.power_mode = cfg.mode]
         [] cfg.name = "set_g_range"       -> [tracked EXCEPT !.g_range = cfg.mode]
         [] cfg.name = "set_sampling_rate" -> [tracked EXCEPT !.sampling_rate = cfg.mode]
         [] OTHER                          -> tracked
  /\ IF pc = "call"
     THEN /\ Return(NoRet)
          /\ UNCHANGED <<in_buf, out, op, reg, pre, ghosts>>
     ELSE /\ pc' = AfterCfg(pc) /\ cfg' = NoCfg /\ bus' = "idle"
          /\ UNCHANGED <<in_buf, out, op, rx, reg, locals, outcome, ret, pre, ghosts>>

----------------------------------------------------------------------------
(* Callers *)

call_set_power_mode(Modes) ==
  \E m \in Modes : StartCall("set_power_mode", <<m>>, <<>>, "call")

call_set_g_range(Ranges) ==
  \E g \in Ranges : StartCall("set_g_range", <<g>>, <<>>, "call")

call_set_sampling_rate(Rates) ==
  \E sr \in Rates : StartCall("set_sampling_rate", <<sr>>, <<>>, "call")

call_set_fifo_mode(Modes, Levels) ==
  \E m \in Modes, w \in Levels : StartCall("set_fifo_mode", <<m>>, <<w>>, "call")

call_set_watermark_level(Levels) ==
  \E w \in Levels : StartCall("set_watermark_level", <<"stream">>, <<w>>, "call")

----------------------------------------------------------------------------
(* The device and the clock, as the acquisition loops see them *)

\* time.ticks_us(): the clock has not advanced since the last reading, or it
\* has; readings wrap. Only differences of readings are used, so the first
\* reading of a call is taken as 0.
Tick(t) == {t, (t + 1) % TicksPeriod}

\* the interrupt-source bytes the device may answer a poll with
StatusBytes == {0, 2, 128, 130}

\* the FIFO-status bytes the device may answer with: the count in the low six
\* bits, the trigger flag in bit 7
FifoStatusBytes == (0..MaxFifoCount) \cup {128 + MaxFifoCount}

\* the 7 bytes the k-th sample fetch of a call clocks in: the artifact byte,
\* then six payload bytes, tagged k
DeviceFrame(k) == <<255, k, k, k, k, k, k>>

Zeros(n) == [i \in 1..n |-> 0]

\* read(2, regaddr_intsource)[1] >> 7 & 1
DataReadyBit(b) == (b \div 128) % 2

\* self.read(regaddr_fifostatus, 1)[0] & 0x3f
FifoCount(b) == b % 64

\* spi_readinto(m[i*7 : i*7 + 7], regaddr_acc): the slice of the memoryview is
\* cut at the end of the buffer, and only the bytes of the slice are read
WriteSlot(b, i, frame) ==
  [j \in 1..Len(b) |->
     IF j > (bytes_per_3axes + 1) * i /\ j <= (bytes_per_3axes + 1) * i + (bytes_per_3axes + 1)
     THEN frame[j - (bytes_per_3axes + 1) * i]
     ELSE b[j]]

\* int(acquisition_time * self.sampling_rate), the rate in hundredths of a hertz
TargetCount(d, sr) == (d * sr) \div 100

\* b[:n]
Prefix(b, n) == SubSeq(b, 1, Min(n, Len(b)))

----------------------------------------------------------------------------
(* Bus transfers of the read paths *)

FetchAt == {"rmx_fetch", "rmf_fetch", "rcx_fetch", "rcf_fetch"}
PollAt  == {"rmx_poll", "rcx_poll"}

\* read(): self.spi.read(nbytes + 1, wbyte)[1:], for clear_isdataready (the
\* six bytes are dropped) and get_nvalues_in_fifo (the masked count is kept)
spi_read ==
  /\ bus = "low" /\ cfg = NoCfg
  /\ pc \in {"rmx_clear", "rcf_count"}
  /\ IF pc = "rcf_count"
     THEN \E b \in FifoStatusBytes : rx' = FifoCount(b)
     ELSE rx' = rx
  /\ bus' = "done"
  /\ UNCHANGED <<in_buf, out, pc, op, cfg, cs, tracked, reg, locals, outcome, ret,
                 pre, ghosts>>

\* the inlined poll: is_data_ready = read(2, regaddr_intsource)[1] >> 7 & 1
poll_read ==
  /\ bus = "low" /\ cfg = NoCfg
  /\ pc \in PollAt
  /\ \E b \in StatusBytes : rx' = DataReadyBit(b)
  /\ bus' = "done"
  /\ UNCHANGED <<in_buf, out, pc, op, cfg, cs, tracked, reg, locals, outcome, ret,
                 pre, ghosts>>

\* the inlined fetch: spi_readinto(m[slot], regaddr_acc)
spi_readinto ==
  /\ bus = "low" /\ cfg = NoCfg
  /\ pc \in FetchAt
  /\ buf' = WriteSlot(buf, n_act_meas, DeviceFrame(nfetch + 1))
  /\ nfetch' = nfetch + 1
  /\ bus' = "done"
  /\ UNCHANGED <<in_buf, out, pc, op, cfg, cs, rx, tracked, reg, n_exp_meas,
                 n_act_meas, T, t_start, t_stop, now, left, outcome, ret, pre,
                 wlog, npos, nneg, set_measure>>

\* cs.value(0) opening a transaction of the read paths
CsLow(next) ==
  /\ cs' = 0 /\ bus' = "low" /\ pc' = next

----------------------------------------------------------------------------
(* read_many_xyz *)

call_read_many_xyz ==
  \E n \in 0..MaxTarget : StartCall("read_many_xyz", <<n>>, <<>>, "rmx_begin")

\* the definitions, n_act_meas = 0, and clear_isdataready up to its cs.value(0)
rmx_begin ==
  /\ pc = "rmx_begin"
  /\ LET n == op.arg[1] IN
       /\ n_exp_meas' = n
       /\ T' = Zeros((3 * n) \div 2)
       /\ buf' = Zeros((bytes_per_3axes + 1) * n)
  /\ n_act_meas' = 0
  /\ CsLow("rmx_clear")
  /\ UNCHANGED <<in_buf, out, op, cfg, rx, tracked, reg, t_start, t_stop, now, left,
                 outcome, ret, pre, ghosts>>

\* clear_isdataready returns; t_start = time.ticks_us()
rmx_clear_return ==
  /\ pc = "rmx_clear" /\ bus = "done"
  /\ cs' = 1 /\ bus' = "idle"
  /\ t_start' = now
  /\ pc' = "rmx_while"
  /\ UNCHANGED <<in_buf, out, op, cfg, rx, tracked, reg, n_exp_meas, n_act_meas, buf,
                 T, t_stop, now, left, outcome, ret, pre, ghosts>>

\* the loop is left one sample short of n
rmx_while_OneShort ==
  /\ pc = "rmx_while"
  /\ IF n_act_meas + 1 < n_exp_meas
     THEN /\ CsLow("rmx_poll")
          /\ UNCHANGED <<t_stop, now>>
     ELSE /\ \E t \in Tick(now) : t_stop' = t /\ now' = t
          /\ pc' = "rmx_final"
          /\ UNCHANGED <<cs, bus>>
  /\ UNCHANGED <<in_buf, out, op, cfg, rx, tracked, reg, n_exp_meas, n_act_meas, buf,
                 T, t_start, left, outcome, ret, pre, ghosts>>

\* while n_act_meas < n: cs.value(0) of the poll; else t_stop = time.ticks_us()
rmx_while ==
  /\ pc = "rmx_while"
  /\ IF n_act_meas < n_exp_meas
     THEN /\ CsLow("rmx_poll")
          /\ UNCHANGED <<t_stop, now>>
     ELSE /\ \E t \in Tick(now) : t_stop' = t /\ now' = t
          /\ pc' = "rmx_final"
          /\ UNCHANGED <<cs, bus>>
  /\ UNCHANGED <<in_buf, out, op, cfg, rx, tracked, reg, n_exp_meas, n_act_meas, buf,
                 T, t_start, left, outcome, ret, pre, ghosts>>

\* the fetch follows every poll, whatever the flag
PollReturn_FetchAnyway(again, ready) ==
  /\ bus = "done"
  /\ cs' = 1 /\ bus' = "idle"
  /\ pc' = ready
  /\ IF rx = 0
     THEN nneg' = Min(nneg + 1, MaxNegPolls) /\ npos' = npos
     ELSE npos' = npos + 1 /\ nneg' = nneg
  /\ UNCHANGED <<in_buf, out, op, cfg, rx, tracked, reg, locals, outcome, ret, pre,
                 wlog, nfetch, set_measure>>

\* cs.value(1) after the poll; if not is_data_ready: continue
PollReturn(again, ready) ==
  /\ bus = "done"
  /\ cs' = 1 /\ bus' = "idle"
  /\ IF rx = 0
     THEN /\ pc' = again
          /\ nneg' = Min(nneg + 1, MaxNegPolls)
          /\ npos' = npos
     ELSE /\ pc' = ready
          /\ npos' = npos + 1
          /\ nneg' = nneg
  /\ UNCHANGED <<in_buf, out, op, cfg, rx, tracked, reg, locals, outcome, ret, pre,
                 wlog, nfetch, set_measure>>

rmx_poll_return == pc = "rmx_poll" /\ PollReturn("rmx_while", "rmx_ready")

\* cs.value(0) of the fetch
rmx_ready ==
  /\ pc = "rmx_ready"
  /\ CsLow("rmx_fetch")
  /\ UNCHANGED <<in_buf, out, op, cfg, rx, tracked, reg, locals, outcome, ret, pre,
                 ghosts>>

\* cs.value(1) after the fetch; T[n_act_meas] = ticks_us(); n_act_meas += 1
StampedFetchReturn(again) ==
  /\ bus = "done"
  /\ cs' = 1 /\ bus' = "idle"
  /\ \E t \in Tick(now) : T' = [T EXCEPT ![n_act_meas + 1] = t] /\ now' = t
  /\ n_act_meas' = n_act_meas + 1
  /\ pc' = again
  /\ UNCHANGED <<in_buf, out, op, cfg, rx, tracked, reg, n_exp_meas, buf, t_start,
                 t_stop, left, outcome, ret, pre, ghosts>>

rmx_fetch_return == pc = "rmx_fetch" /\ StampedFetchReturn("rmx_while")

\* the final corrections and the debug prints: n / self.sampling_rate needs
\* the attribute, n_act_meas / actual_acq_time a non-zero time
FinishTimed(b, ts) ==
  IF tracked.sampling_rate = <<>>
  THEN Raise("AttributeError")
  ELSE IF t_stop = t_start
  THEN Raise("ZeroDivisionError")
  ELSE /\ Return([buf |-> b, T |-> ts])
       /\ UNCHANGED <<in_buf, out, op, cs, tracked, reg, pre, ghosts>>

\* the timestamp list is returned as allocated
rmx_final_NoTruncation ==
  /\ pc = "rmx_final"
  /\ FinishTimed(remove_first_bytes(buf), T)

\* buf = remove_first_bytes..(buf); T = T[:n]
rmx_final ==
  /\ pc = "rmx_final"
  /\ FinishTimed(remove_first_bytes(buf), Prefix(T, op.arg[1]))

----------------------------------------------------------------------------
(* read_many_xyz_fromfifo *)

call_read_many_xyz_fromfifo ==
  \E n \in 0..MaxTarget : StartCall("read_many_xyz_fromfifo", <<n>>, <<>>, "rmf_begin")

\* the definitions, n_act_meas = 0, t_start = time.ticks_us()
rmf_begin ==
  /\ pc = "rmf_begin"
  /\ n_exp_meas' = op.arg[1]
  /\ buf' = Zeros((bytes_per_3axes + 1) * op.arg[1])
  /\ n_act_meas' = 0
  /\ t_start' = now
  /\ pc' = "rmf_while"
  /\ UNCHANGED <<in_buf, out, op, cfg, cs, bus, rx, tracked, reg, T, t_stop, now, left,
                 outcome, ret, pre, ghosts>>

\* the loop goes on while n_act_meas <= n
rmf_while_OneMore ==
  /\ pc = "rmf_while"
  /\ IF n_act_meas <= n_exp_meas
     THEN /\ CsLow("rmf_fetch")
          /\ UNCHANGED <<t_stop, now>>
     ELSE /\ \E t \in Tick(now) : t_stop' = t /\ now' = t
          /\ pc' = "rmf_final"
          /\ UNCHANGED <<cs, bus>>
  /\ UNCHANGED <<in_buf, out, op, cfg, rx, tracked, reg, n_exp_meas, n_act_meas, buf,
                 T, t_start, left, outcome, ret, pre, ghosts>>

\* while n_act_meas < n: cs.value(0) of the fetch; else t_stop = time.ticks_us()
rmf_while ==
  /\ pc = "rmf_while"
  /\ IF n_act_meas < n_exp_meas
     THEN /\ CsLow("rmf_fetch")
          /\ UNCHANGED <<t_stop, now>>
     ELSE /\ \E t \in Tick(now) : t_stop' = t /\ now' = t
          /\ pc' = "rmf_final"
          /\ UNCHANGED <<cs, bus>>
  /\ UNCHANGED <<in_buf, out, op, cfg, rx, tracked, reg, n_exp_meas, n_act_meas, buf,
                 T, t_start, left, outcome, ret, pre, ghosts>>

\* cs.value(1) after the fetch; n_act_meas += 1
rmf_fetch_return ==
  /\ pc = "rmf_fetch" /\ bus = "done"
  /\ cs' = 1 /\ bus' = "idle"
  /\ n_act_meas' = n_act_meas + 1
  /\ pc' = "rmf_while"
  /\ UNCHANGED <<in_buf, out, op, cfg, rx, tracked, reg, n_exp_meas, buf, T, t_start,
                 t_stop, now, left, outcome, ret, pre, ghosts>>

rmf_final ==
  /\ pc = "rmf_final"
  /\ FinishTimed(remove_first_bytes(buf), <<>>)

----------------------------------------------------------------------------
(* read_continuos_xyz *)

Durations == 0..MaxDuration

\* a call whose target count the model covers
Covered(d) ==
  tracked.sampling_rate # <<>> => TargetCount(d, tracked.sampling_rate[1]) <= MaxTarget

call_read_continuos_xyz ==
  \E d \in Durations :
     /\ Covered(d)
     /\ StartCall("read_continuos_xyz", <<d>>, <<>>, "rcx_begin")

\* the first print needs self.sampling_rate and self.g_range; then the
\* definitions and n_act_meas = 0
ContinuousBegin(next, stamps) ==
  IF tracked.sampling_rate = <<>> \/ tracked.g_range = <<>>
  THEN Raise("AttributeError")
  ELSE LET n == TargetCount(op.arg[1], tracked.sampling_rate[1]) IN
         /\ n_exp_meas' = n
         /\ T' = IF stamps THEN Zeros((3 * n) \div 2) ELSE <<>>
         /\ buf' = Zeros((3 * ((bytes_per_3axes + 1) * n)) \div 2)
         /\ n_act_meas' = 0
         /\ pc' = next
         /\ UNCHANGED <<in_buf, out, op, cfg, cs, bus, rx, tracked, reg, t_start,
                        t_stop, now, left, outcome, ret, pre, ghosts>>

rcx_begin == pc = "rcx_begin" /\ ContinuousBegin("rcx_bypass", TRUE)

\* the loop is left without the write of standby
rcx_while_NoStandby ==
  /\ pc = "rcx_while"
  /\ IF n_act_meas < n_exp_meas
     THEN CsLow("rcx_poll")
     ELSE pc' = "rcx_final" /\ UNCHANGED <<cs, bus>>
  /\ UNCHANGED <<in_buf, out, op, cfg, rx, tracked, reg, locals, outcome, ret, pre,
                 ghosts>>

\* while n_act_meas < n_exp_meas: cs.value(0) of the poll; else leave the loop
rcx_while ==
  /\ pc = "rcx_while"
  /\ IF n_act_meas < n_exp_meas
     THEN CsLow("rcx_poll")
     ELSE pc' = "rcx_standby" /\ UNCHANGED <<cs, bus>>
  /\ UNCHANGED <<in_buf, out, op, cfg, rx, tracked, reg, locals, outcome, ret, pre,
                 ghosts>>

rcx_poll_return == pc = "rcx_poll" /\ PollReturn("rcx_while", "rcx_ready")

rcx_ready ==
  /\ pc = "rcx_ready"
  /\ CsLow("rcx_fetch")
  /\ UNCHANGED <<in_buf, out, op, cfg, rx, tracked, reg, locals, outcome, ret, pre,
                 ghosts>>

rcx_fetch_return == pc = "rcx_fetch" /\ StampedFetchReturn("rcx_while")

\* the final corrections: buf[:n_exp_meas * bytes_per_3axes], T[:n_act_meas];
\* the debug prints read T[-1] and divide by (T[-1] - T[0]) / 1000000
rcx_final ==
  /\ pc = "rcx_final"
  /\ LET b  == Prefix(remove_first_bytes(buf), n_exp_meas * bytes_per_3axes)
         ts == Prefix(T, n_act_meas)
     IN  IF ts = <<>>
         THEN Raise("IndexError")
         ELSE IF ts[Len(ts)] = ts[1]
         THEN Raise("ZeroDivisionError")
         ELSE /\ Return([buf |-> b, T |-> ts])
              /\ UNCHANGED <<in_buf, out, op, cs, tracked, reg, pre, ghosts>>

----------------------------------------------------------------------------
(* read_continuos_xyz_fromfifo *)

call_read_continuos_xyz_fromfifo ==
  \E d \in Durations :
     /\ Covered(d)
     /\ StartCall("read_continuos_xyz_fromfifo", <<d>>, <<>>, "rcf_begin")

rcf_begin == pc = "rcf_begin" /\ ContinuousBegin("rcf_stream", FALSE)

\* t_start = time.ticks_us()
rcf_tstart ==
  /\ pc = "rcf_tstart"
  /\ t_start' = now
  /\ pc' = "rcf_while"
  /\ UNCHANGED <<in_buf, out, op, cfg, cs, bus, rx, tracked, reg, n_exp_meas,
                 n_act_meas, buf, T, t_stop, now, left, outcome, ret, pre, ghosts>>

\* the loop goes on while n_act_meas <= n_exp_meas
rcf_while_OneMore ==
  /\ pc = "rcf_while"
  /\ IF n_act_meas <= n_exp_meas
     THEN /\ CsLow("rcf_count")
          /\ UNCHANGED <<t_stop, now>>
     ELSE /\ \E t \in Tick(now) : t_stop' = t /\ now' = t
          /\ pc' = "rcf_standby"
          /\ UNCHANGED <<cs, bus>>
  /\ UNCHANGED <<in_buf, out, op, cfg, rx, tracked, reg, n_exp_meas, n_act_meas, buf,
                 T, t_start, left, outcome, ret, pre, ghosts>>

\* while n_act_meas < n_exp_meas: get_nvalues_in_fifo() up to its cs.value(0);
\* else t_stop = time.ticks_us()
rcf_while ==
  /\ pc = "rcf_while"
  /\ IF n_act_meas < n_exp_meas
     THEN /\ CsLow("rcf_count")
          /\ UNCHANGED <<t_stop, now>>
     ELSE /\ \E t \in Tick(now) : t_stop' = t /\ now' = t
          /\ pc' = "rcf_standby"
          /\ UNCHANGED <<cs, bus>>
  /\ UNCHANGED <<in_buf, out, op, cfg, rx, tracked, reg, n_exp_meas, n_act_meas, buf,
                 T, t_start, left, outcome, ret, pre, ghosts>>

\* get_nvalues_in_fifo returns: for _ in range(nvalues_infifo)
rcf_count_return ==
  /\ pc = "rcf_count" /\ bus = "done"
  /\ cs' = 1 /\ bus' = "idle"
  /\ left' = rx
  /\ IF rx = 0
     THEN nneg' = Min(nneg + 1, MaxNegPolls) /\ npos' = npos
     ELSE npos' = npos + 1 /\ nneg' = nneg
  /\ pc' = "rcf_for"
  /\ UNCHANGED <<in_buf, out, op, cfg, rx, tracked, reg, n_exp_meas, n_act_meas, buf,
                 T, t_start, t_stop, now, outcome, ret, pre, wlog, nfetch, set_measure>>

\* the next iteration of the for loop: cs.value(0) of the fetch; or its end
rcf_for ==
  /\ pc = "rcf_for"
  /\ IF left > 0
     THEN CsLow("rcf_fetch")
     ELSE pc' = "rcf_while" /\ UNCHANGED <<cs, bus>>
  /\ UNCHANGED <<in_buf, out, op, cfg, rx, tracked, reg, locals, outcome, ret, pre,
                 ghosts>>

\* cs.value(1) after the fetch; n_act_meas += 1
rcf_fetch_return ==
  /\ pc = "rcf_fetch" /\ bus = "done"
  /\ cs' = 1 /\ bus' = "idle"
  /\ n_act_meas' = n_act_meas + 1
  /\ left' = left - 1
  /\ pc' = "rcf_for"
  /\ UNCHANGED <<in_buf, out, op, cfg, rx, tracked, reg, n_exp_meas, buf, T, t_start,
                 t_stop, now, outcome, ret, pre, ghosts>>

\* T = [i / self.sampling_rate for i in range(n_exp_meas)], in microseconds
TimeGrid(n, sr) == [i \in 1..n |-> ((i - 1) * 100000000) \div sr]

\* the buffer is cut to the accepted count
rcf_final_KeepAccepted ==
  /\ pc = "rcf_final"
  /\ FinishTimed(Prefix(remove_first_bytes(buf), n_act_meas * bytes_per_3axes),
                 TimeGrid(n_act_meas, tracked.sampling_rate[1]))

\* the final corrections: buf[:n_exp_meas * bytes_per_3axes] and the time grid
rcf_final ==
  /\ pc = "rcf_final"
  /\ FinishTimed(Prefix(remove_first_bytes(buf), n_exp_meas * bytes_per_3axes),
                 TimeGrid(n_exp_meas, tracked.sampling_rate[1]))

----------------------------------------------------------------------------
(* The decoder applied to a buffer *)

\* a signed 16-bit value as a little-endian unsigned word (v mod 65536)
EncodeLE16(v) == LET u == v % 65536 IN <<u % 256, u \div 256>>

EncodeXYZ(x, y, z) == EncodeLE16(x) \o EncodeLE16(y) \o EncodeLE16(z)

TestValues == {0 - 32768, 0 - 32767, 0 - 256, 0 - 1, 0, 1, 255, 256, 32767}

SampleA == EncodeXYZ(1, 0 - 2, 300)
SampleB == EncodeXYZ(0 - 32768, 32767, 0 - 1)

RECURSIVE Concat(_)
Concat(ss) == IF ss = <<>> THEN <<>> ELSE Head(ss) \o Concat(Tail(ss))

\* one sample of every triple of test values; and up to MaxSamples samples,
\* each SampleA or SampleB, followed by 0..5 stray bytes
DecodeInputs ==
  {EncodeXYZ(x, y, z) : x \in TestValues, y \in TestValues, z \in TestValues}
  \cup
  UNION {{Concat([j \in 1..k |-> IF f[j] = 0 THEN SampleA ELSE SampleB])
            \o [i \in 1..r |-> 170] :
            f \in [1..k -> {0, 1}], r \in 0..(bytes_per_3axes - 1)} :
         k \in 0..MaxSamples}

InitDecode ==
  /\ DriverInit
  /\ in_buf \in DecodeInputs
  /\ out = [done |-> FALSE, val |-> <<>>]

decode ==
  /\ ~out.done
  /\ out' = [done |-> TRUE, val |-> xyzbytes2g(in_buf)]
  /\ UNCHANGED <<in_buf, driverVars>>

NextDecode == decode

SpecDecode == InitDecode /\ [][NextDecode]_vars

\* C1: a buffer of 6k bytes decodes to three sequences of k elements each.
C1_DecodedLengths ==
  (out.done /\ Len(in_buf) % 6 = 0) =>
     /\ out.val.status = "ok"
     /\ Len(out.val.x) = Len(in_buf) \div 6
     /\ Len(out.val.y) = Len(in_buf) \div 6
     /\ Len(out.val.z) = Len(in_buf) \div 6

\* C2: a buffer whose length is no multiple of 6 is refused with an error,
\* and no sequences are returned.
C2_MalformedRefused ==
  (out.done /\ Len(in_buf) % 6 # 0) => out.val.status # "ok"

\* C3: one 6-byte group that encodes (x, y, z) decodes to exactly x, y, z in
\* that order, and every decoded value is in -32768..32767.
C3_RoundTrip ==
  out.done =>
     /\ \A x \in TestValues, y \in TestValues, z \in TestValues :
          in_buf = EncodeXYZ(x, y, z) =>
             out.val = [status |-> "ok", x |-> <<x>>, y |-> <<y>>, z |-> <<z>>]
     /\ \A j \in DOMAIN out.val.x :
          /\ out.val.x[j] \in (0 - 32768)..32767
          /\ out.val.y[j] \in (0 - 32768)..32767
          /\ out.val.z[j] \in (0 - 32768)..32767

C3_Witness ==
  /\ out.done
  /\ in_buf = <<255, 255, 0, 128, 255, 127>>
  /\ out.val.x = <<0 - 1>> /\ out.val.y = <<0 - 32768>> /\ out.val.z = <<32767>>

----------------------------------------------------------------------------
(* The frame stripping applied to a buffer *)

FrameTags == 0..3

\* the frame tagged t: artifact byte 10t, payload bytes 10t+1 .. 10t+6
Frame(t) == [i \in 1..(bytes_per_3axes + 1) |-> 10 * t + i - 1]

StripInputs ==
  UNION {{Concat([j \in 1..m |-> Frame(f[j])]) : f \in [1..m -> FrameTags]} :
         m \in 0..MaxFrames}

InitStrip ==
  /\ DriverInit
  /\ in_buf \in StripInputs
  /\ out = [done |-> FALSE, val |-> <<>>]

strip ==
  /\ ~out.done
  /\ out' = [done |-> TRUE, val |-> remove_first_bytes(in_buf)]
  /\ UNCHANGED <<in_buf, driverVars>>

NextStrip == strip

SpecStrip == InitStrip /\ [][NextStrip]_vars

\* C4: m frames of 7 bytes are stripped to 6m bytes, the last 6 bytes of each
\* frame in frame order.
C4_FrameStripping ==
  out.done =>
     LET m == Len(in_buf) \div 7 IN
       /\ Len(out.val) = 6 * m
       /\ \A f \in 1..m, j \in 1..6 :
            out.val[6 * (f - 1) + j] = in_buf[7 * (f - 1) + 1 + j]

C4_Witness ==
  /\ out.done
  /\ Len(in_buf) = 14
  /\ in_buf[1] # in_buf[8]
  /\ out.val = SubSeq(in_buf, 2, 7) \o SubSeq(in_buf, 9, 14)

----------------------------------------------------------------------------
(* The FIFO configurators alone *)

FifoModeArgs  == {"bypass", "stream", "trigger"}
WatermarkArgs == (0 - 1)..MaxWatermarkArg

InitDriver == PureIdle /\ DriverInit

NextFifo ==
  \/ call_set_fifo_mode(FifoModeArgs, WatermarkArgs)
  \/ call_set_watermark_level(WatermarkArgs)
  \/ set_fifo_mode
  \/ set_watermark_level
  \/ spi_write
  \/ bytearray_refused
  \/ write_return

SpecFifo == InitDriver /\ [][NextFifo]_vars

\* C5: with a watermark w in 0..31, set_fifo_mode('stream', w) and
\* set_watermark_level(w) write the one byte 128 + w to the FIFO-control
\* register; set_fifo_mode('bypass', w) writes 0 whatever w is.
C5_FifoControlByte ==
  (pc = "idle" /\ outcome = "returned") =>
     /\ (op.name = "set_fifo_mode" /\ op.arg = <<"bypass">>) =>
           wlog = << <<regaddr_fifoctl, 0>> >>
     /\ (/\ \/ op.name = "set_fifo_mode" /\ op.arg = <<"stream">>
            \/ op.name = "set_watermark_level"
         /\ op.wm[1] \in 0..31) =>
           /\ wlog = << <<regaddr_fifoctl, 128 + op.wm[1]>> >>
           /\ reg[regaddr_fifoctl] = <<128 + op.wm[1]>>
           /\ (op.wm[1] = 16 => wlog[1][2] = 144)

C5_Witness ==
  /\ pc = "idle" /\ outcome = "returned"
  /\ op.name = "set_watermark_level" /\ op.wm = <<31>>
  /\ wlog = << <<regaddr_fifoctl, 159>> >>
  /\ pre.fifo_mode = <<"bypass">>

----------------------------------------------------------------------------
(* The sampling-rate configurator alone *)

\* the 12 rates of the table, and 500 Hz, 0 Hz, 3.2 Hz and 3201 Hz
RateArgs == DOMAIN device_sampling_rates \cup {50000, 0, 320, 320100}

NextRate ==
  \/ call_set_sampling_rate(RateArgs)
  \/ set_sampling_rate
  \/ spi_write
  \/ spi_fault
  \/ write_return

SpecRate == InitDriver /\ [][NextRate]_vars

\* C7: set_sampling_rate with a rate that is none of the 12 supported ones
\* fails with an error, writes nothing to the bus and leaves the tracked
\* sampling_rate as it was.
C7_RateRejected ==
  (op.name = "set_sampling_rate" /\ op.arg[1] \notin DOMAIN device_sampling_rates) =>
     /\ wlog = <<>>
     /\ bus = "idle"
     /\ tracked.sampling_rate = pre.sampling_rate
     /\ reg[regaddr_freq] = (IF pre.sampling_rate = <<>> THEN reg[regaddr_freq]
                             ELSE <<device_sampling_rates[pre.sampling_rate[1]]>>)
     /\ (pc = "idle" => outcome = "KeyError")

C7_Witness ==
  /\ pc = "idle" /\ outcome = "KeyError"
  /\ op.name = "set_sampling_rate" /\ op.arg = <<50000>>
  /\ pre.sampling_rate = <<10000>>
  /\ tracked.sampling_rate = <<10000>>
  /\ wlog = <<>>

----------------------------------------------------------------------------
(* The driver: the acquisitions, with the rate and the range configured *)

SpecRates  == {156, 313}
SpecRanges == {2}

Next ==
  \/ call_set_sampling_rate(SpecRates)
  \/ call_set_g_range(SpecRanges)
  \/ call_read_many_xyz
  \/ call_read_many_xyz_fromfifo
  \/ call_read_continuos_xyz
  \/ call_read_continuos_xyz_fromfifo
  \/ set_power_mode
  \/ set_g_range
  \/ set_sampling_rate
  \/ set_fifo_mode
  \/ spi_write
  \/ write_return
  \/ spi_read
  \/ poll_read
  \/ spi_readinto
  \/ spi_fault
  \/ rmx_begin
  \/ rmx_clear_return
  \/ rmx_while
  \/ rmx_poll_return
  \/ rmx_ready
  \/ rmx_fetch_return
  \/ rmx_final
  \/ rmf_begin
  \/ rmf_while
  \/ rmf_fetch_return
  \/ rmf_final
  \/ rcx_begin
  \/ rcx_while
  \/ rcx_poll_return
  \/ rcx_ready
  \/ rcx_fetch_return
  \/ rcx_final
  \/ rcf_begin
  \/ rcf_tstart
  \/ rcf_while
  \/ rcf_count_return
  \/ rcf_for
  \/ rcf_fetch_return
  \/ rcf_final

Spec == InitDriver /\ [][Next]_vars

Ended(names) == pc = "idle" /\ op.name \in names /\ outcome # "none"

Returned(names) == pc = "idle" /\ op.name \in names /\ outcome = "returned"

\* the target count of the call: n, or floor(duration x rate)
Target ==
  IF op.name \in {"read_many_xyz", "read_many_xyz_fromfifo"}
  THEN op.arg[1]
  ELSE TargetCount(op.arg[1], tracked.sampling_rate[1])

\* C6: when read_many_xyz(n) returns, the buffer has 6n bytes and the
\* timestamp list n entries.
C6_SingleBurstCounts ==
  Returned({"read_many_xyz"}) =>
     /\ Len(ret.buf) = 6 * op.arg[1]
     /\ Len(ret.T) = op.arg[1]

\* n = 3: four timestamp slots were allocated, and negative polls happened
C6_Witness ==
  /\ Returned({"read_many_xyz"})
  /\ op.arg = <<3>>
  /\ nneg >= 2 /\ npos = 3
  /\ Len(ret.buf) = 18 /\ Len(ret.T) = 3

\* C8: a fixed-duration acquisition that has set measure never ends, on any
\* exit path, with the device left in measure mode.
C8_StandbyOnEveryExit ==
  (Ended({"read_continuos_xyz", "read_continuos_xyz_fromfifo"}) /\ set_measure) =>
     reg[regaddr_pwr] = <<power_modes["standby"]>>

\* C10 as claimed: every mode returns 6 bytes per accepted fetch, and as many
\* timestamps as accepted fetches.
C10_TruncatedToAccepted ==
  Returned({"read_many_xyz", "read_many_xyz_fromfifo", "read_continuos_xyz",
            "read_continuos_xyz_fromfifo"}) =>
     /\ Len(ret.buf) = 6 * nfetch
     /\ op.name # "read_many_xyz_fromfifo" => Len(ret.T) = nfetch

\* C10 as amended: every mode returns 6 bytes per sample of the target count,
\* the payloads of the first target fetches in order, and (where timestamps
\* are returned) target timestamps; the accepted count equals the target in
\* every mode but read_continuos_xyz_fromfifo, where it is at least the target.
C10_TruncatedToTarget ==
  Returned({"read_many_xyz", "read_many_xyz_fromfifo", "read_continuos_xyz",
            "read_continuos_xyz_fromfifo"}) =>
     /\ Len(ret.buf) = 6 * Target
     /\ \A i \in 1..Target, j \in 1..6 : ret.buf[6 * (i - 1) + j] = i
     /\ op.name # "read_many_xyz_fromfifo" => Len(ret.T) = Target
     /\ op.name = "read_many_xyz_fromfifo" => ret.T = <<>>
     /\ op.name # "read_continuos_xyz_fromfifo" => nfetch = Target
     /\ nfetch >= Target

\* a batch drain accepted more samples than the target
C10_Witness ==
  /\ Returned({"read_continuos_xyz_fromfifo"})
  /\ Target = 1
  /\ nfetch = 3
  /\ Len(ret.buf) = 6 /\ Len(ret.T) = 1

----------------------------------------------------------------------------
(* The fixed-duration FIFO-drain mode, with a FIFO that fills *)

NextLive ==
  \/ call_set_sampling_rate(SpecRates)
  \/ call_set_g_range(SpecRanges)
  \/ call_read_continuos_xyz_fromfifo
  \/ set_power_mode
  \/ set_g_range
  \/ set_sampling_rate
  \/ set_fifo_mode
  \/ spi_write
  \/ write_return
  \/ spi_read
  \/ spi_readinto
  \/ spi_fault
  \/ rcf_begin
  \/ rcf_tstart
  \/ rcf_while
  \/ rcf_count_return
  \/ rcf_for
  \/ rcf_fetch_return
  \/ rcf_final

\* a FIFO-count poll that finds samples in the FIFO
FifoNonEmpty == spi_read /\ pc = "rcf_count" /\ rx' > 0

\* the program runs on; the device FIFO is non-empty at some poll again and again
SpecLive ==
  InitDriver /\ [][NextLive]_vars /\ WF_vars(NextLive) /\ SF_vars(FifoNonEmpty)

InRcfLoop == pc \in {"rcf_while", "rcf_count", "rcf_for", "rcf_fetch"}

\* C9: in read_continuos_xyz_fromfifo the accepted count never decreases, no
\* FIFO-count poll is issued once it has reached floor(duration x rate), and
\* with a FIFO that is non-empty again and again the loop is left.
C9_FifoDrainLoop ==
  /\ [][(InRcfLoop /\ InRcfLoop') => n_act_meas' >= n_act_meas]_vars
  /\ [](pc = "rcf_count" => n_act_meas < TargetCount(op.arg[1], tracked.sampling_rate[1]))
  /\ (InRcfLoop ~> ~InRcfLoop)

\* the loop was left after empty and non-empty polls, the target reached
C9_Witness ==
  /\ pc = "rcf_standby"
  /\ n_exp_meas = 3 /\ n_act_meas >= 3
  /\ nneg >= 1 /\ npos >= 2

----------------------------------------------------------------------------
(* The configurators, called with legal and with illegal arguments *)

PowerModeArgs == {"standby", "measure", "sleep"}
RangeArgs     == {2, 4, 8, 16, 3}
LevelArgs     == {0 - 1, 0, 16, 31, 32}

NextConfig ==
  \/ call_set_power_mode(PowerModeArgs)
  \/ call_set_g_range(RangeArgs)
  \/ call_set_fifo_mode(FifoModeArgs, LevelArgs)
  \/ call_set_watermark_level(LevelArgs)
  \/ set_power_mode
  \/ set_g_range
  \/ set_fifo_mode
  \/ set_watermark_level
  \/ spi_write
  \/ bytearray_refused
  \/ write_return

SpecConfig == InitDriver /\ [][NextConfig]_vars

\* the running (or last) call was given an argument outside its legal set
IllegalArg ==
  \/ op.name = "set_power_mode" /\ op.arg[1] \notin {"standby", "measure"}
  \/ op.name = "set_g_range" /\ op.arg[1] \notin {2, 4, 8, 16}
  \/ op.name = "set_fifo_mode"
       /\ (op.arg[1] \notin {"bypass", "stream"} \/ op.wm[1] \notin 0..31)
  \/ op.name = "set_watermark_level" /\ op.wm[1] \notin 0..31

\* C11: set_power_mode, set_g_range, set_fifo_mode and set_watermark_level
\* called with an argument outside the legal set fail with an error, never
\* assert chip-select or write to the bus, and leave the tracked
\* configuration as it was.
C11_ArgumentsValidated ==
  IllegalArg =>
     /\ wlog = <<>>
     /\ cs = 1
     /\ tracked = pre
     /\ (pc = "idle" => outcome \notin {"none", "returned"})

----------------------------------------------------------------------------
(* The configurators, called with legal arguments only *)

LegalLevels == {0, 1, 16, 31}

NextLegal ==
  \/ call_set_power_mode(DOMAIN power_modes)
  \/ call_set_g_range(DOMAIN g_ranges)
  \/ call_set_sampling_rate(SpecRates)
  \/ call_set_fifo_mode({"bypass", "stream"}, LegalLevels)
  \/ call_set_watermark_level(LegalLevels)
  \/ set_power_mode
  \/ set_g_range
  \/ set_sampling_rate
  \/ set_fifo_mode
  \/ set_watermark_level
  \/ spi_write
  \/ write_return

SpecLegal == InitDriver /\ [][NextLegal]_vars

Configurators == {"set_power_mode", "set_g_range", "set_sampling_rate",
                  "set_fifo_mode", "set_watermark_level"}

\* the returned call made one write, to its own register
OneWriteToOwnRegister ==
  Returned(Configurators) =>
     /\ Len(wlog) = 1
     /\ wlog[1][1] = (CASE op.name = "set_power_mode"    -> 45
                        [] op.name = "set_g_range"       -> 49
                        [] op.name = "set_sampling_rate" -> 44
                        [] OTHER                         -> 56)
     /\ reg[wlog[1][1]] = <<wlog[1][2]>>
     /\ cs = 1

\* power_mode, g_range and sampling_rate, where set, are what the byte in
\* their register encodes
TableFieldsAgree ==
  /\ tracked.power_mode # <<>> =>
        reg[regaddr_pwr] = <<power_modes[tracked.power_mode[1]]>>
  /\ tracked.g_range # <<>> =>
        reg[regaddr_grange] = <<g_ranges[tracked.g_range[1]]>>
  /\ tracked.sampling_rate # <<>> =>
        reg[regaddr_freq] = <<device_sampling_rates[tracked.sampling_rate[1]]>>

----------------------------------------------------------------------------
(* Chip-select *)

\* C13: chip-select is asserted exactly while a bus transaction is open:
\* outside a transaction the line is idle (1), on every exit path of a
\* transaction, a transfer that raises included; every transfer happens with
\* the line asserted (0).
C13_ChipSelectBracketing ==
  /\ bus = "idle" => cs = 1
  /\ bus \in {"low", "done"} => cs = 0

----------------------------------------------------------------------------
(* The polled-on-flag loops *)

PolledWhile == {"rmx_while", "rcx_while"}
PolledReady == {"rmx_ready", "rcx_ready"}
PolledFetch == {"rmx_fetch", "rcx_fetch"}

\* the 7-byte slot number i of a raw buffer, as 1-based positions
Slot(i) == (7 * i + 1)..(7 * i + 7)

\* C14: in read_many_xyz and read_continuos_xyz the data-ready flag is bit 7 of
\* the status byte; a fetch is issued only right after a poll that read the
\* flag as 1; after a poll that read 0 the loop polls again, with no fetch and
\* the accepted count unchanged; a fetch fills slot number accepted-count of
\* the raw buffer and nothing else, its return stamps the timestamp slot of the
\* same index and adds exactly 1 to the accepted count; at the head of every
\* iteration the accepted count is the number of positive polls so far.
C14_FetchOnlyAfterPositivePoll ==
  /\ [](\A b \in StatusBytes : (DataReadyBit(b) = 1) <=> (b >= 128))
  /\ [](pc \in PolledWhile => (npos = n_act_meas /\ nfetch = n_act_meas))
  /\ [](pc \in PolledReady \cup PolledFetch => (rx = 1 /\ npos = n_act_meas + 1))
  /\ [][(pc' \in PolledReady /\ pc' # pc) => (pc \in PollAt /\ rx = 1)]_vars
  /\ [][(pc' \in PolledFetch /\ pc' # pc) => pc \in PolledReady]_vars
  /\ [][(pc \in PollAt /\ bus = "done" /\ rx = 0 /\ pc' # "idle") =>
          /\ pc' \in PolledWhile
          /\ n_act_meas' = n_act_meas /\ nfetch' = nfetch /\ buf' = buf /\ T' = T]_vars
  /\ [][(pc \in PolledWhile /\ n_act_meas < n_exp_meas /\ pc' # "idle") =>
          pc' \in PollAt]_vars
  /\ [][(pc \in PolledFetch /\ bus = "low" /\ bus' = "done") =>
          /\ Slot(n_act_meas) \subseteq DOMAIN buf
          /\ Len(buf') = Len(buf)
          /\ \A j \in DOMAIN buf :
               buf'[j] = IF j \in Slot(n_act_meas)
                         THEN DeviceFrame(nfetch + 1)[j - 7 * n_act_meas]
                         ELSE buf[j]
          /\ nfetch' = nfetch + 1 /\ n_act_meas' = n_act_meas]_vars
  /\ [][(pc \in PolledFetch /\ bus = "done" /\ pc' # "idle") =>
          /\ n_act_meas' = n_act_meas + 1
          /\ n_act_meas + 1 \in DOMAIN T
          /\ Len(T') = Len(T)
          /\ T'[n_act_meas + 1] = now'
          /\ \A k \in DOMAIN T : k # n_act_meas + 1 => T'[k] = T[k]
          /\ buf' = buf
          /\ pc' \in PolledWhile]_vars

\* two samples accepted in slots 0 and 1 after a negative poll, the third
\* slot still empty
C14_Witness ==
  /\ pc = "rcx_while"
  /\ n_exp_meas = 3 /\ n_act_meas = 2
  /\ npos = 2 /\ nneg >= 1
  /\ SubSeq(buf, 1, 21) = DeviceFrame(1) \o DeviceFrame(2) \o Zeros(7)
  /\ T[2] = 1

----------------------------------------------------------------------------
(* Set-up of read_continuos_xyz_fromfifo *)

RcfLoop == {"rcf_while", "rcf_count", "rcf_for", "rcf_fetch"}

\* the bus writes of a whole call of read_continuos_xyz_fromfifo, in order:
\* stream (watermark 16), measure, the flush (bypass, stream), standby
RcfWrites == << <<56, 144>>, <<45, 8>>, <<56, 0>>, <<56, 144>>, <<45, 0>> >>

\* C15 as claimed: in read_continuos_xyz_fromfifo exactly two FIFO-control
\* writes come first, then the power-control write that sets measure, and
\* only then the first FIFO-count poll; no FIFO-control write follows the
\* write of measure.
C15_FifoWritesBeforeMeasure ==
  op.name = "read_continuos_xyz_fromfifo" =>
     /\ \A i, j \in DOMAIN wlog :
          (i < j /\ wlog[i] = <<45, 8>>) => wlog[j][1] # 56
     /\ pc \in RcfLoop =>
          /\ Len(wlog) = 3
          /\ wlog[1][1] = 56 /\ wlog[2][1] = 56
          /\ wlog[3] = <<45, 8>>

\* C15 as amended: read_continuos_xyz_fromfifo writes stream to the
\* FIFO-control register first, then measure to the power-control register,
\* then flushes the FIFO with two more FIFO-control writes (bypass, stream),
\* and only then takes t_start and issues the first FIFO-count poll; no write
\* happens during the loop, and the only write after it is standby.
C15_FlushAfterMeasure ==
  op.name = "read_continuos_xyz_fromfifo" =>
     /\ \E k \in 0..5 : wlog = SubSeq(RcfWrites, 1, k)
     /\ pc \in RcfLoop \cup {"rcf_tstart"} =>
          /\ wlog = SubSeq(RcfWrites, 1, 4)
          /\ tracked.power_mode = <<"measure">>
          /\ tracked.fifo_mode = <<"stream">>
          /\ tracked.watermark_level = <<16>>
     /\ pc \in {"rcf_begin", "rcf_stream", "rcf_measure", "rcf_clear1",
                "rcf_clear2", "rcf_tstart"} =>
          (nfetch = 0 /\ npos = 0 /\ nneg = 0)

\* the first FIFO-count poll is on the bus, the four set-up writes behind it
C15_Witness ==
  /\ op.name = "read_continuos_xyz_fromfifo"
  /\ pc = "rcf_count" /\ bus = "low"
  /\ npos = 0 /\ nneg = 0 /\ nfetch = 0
  /\ wlog = << <<56, 144>>, <<45, 8>>, <<56, 0>>, <<56, 144>> >>
  /\ reg[regaddr_pwr] = <<8>> /\ reg[regaddr_fifoctl] = <<144>>

----------------------------------------------------------------------------
(* Order of operations of read_continuos_xyz *)

RcxLoop == {"rcx_while", "rcx_poll", "rcx_ready", "rcx_fetch"}

\* the bus writes of a whole call of read_continuos_xyz, in order: bypass,
\* measure, standby
RcxWrites == << <<56, 0>>, <<45, 8>>, <<45, 0>> >>

\* C16: read_continuos_xyz writes bypass (0x00) to the FIFO-control register
\* once and first, then measure to the power-control register, then issues
\* only status polls and sample fetches, all of them with the tracked power
\* mode measure; the write of standby comes after the last fetch and nothing
\* goes over the bus after it.
C16_BypassMeasureLoopStandby ==
  /\ [](op.name = "read_continuos_xyz" =>
          /\ \E k \in 0..3 : wlog = SubSeq(RcxWrites, 1, k)
          /\ pc \in {"rcx_begin", "rcx_bypass", "rcx_measure"} =>
               (nfetch = 0 /\ npos = 0 /\ nneg = 0)
          /\ pc \in RcxLoop =>
               /\ wlog = SubSeq(RcxWrites, 1, 2)
               /\ tracked.power_mode = <<"measure">>
               /\ tracked.fifo_mode = <<"bypass">>
          /\ pc = "rcx_standby" => nfetch = n_exp_meas
          /\ (pc = "rcx_final" \/ (pc = "idle" /\ outcome \in
                 {"returned", "IndexError", "ZeroDivisionError"})) =>
               /\ wlog = RcxWrites
               /\ reg[regaddr_pwr] = <<0>>
               /\ tracked.power_mode = <<"standby">>
               /\ cs = 1)
  /\ [][(pc \in {"rcx_standby", "rcx_final"}) =>
          (/\ pc' \in {"rcx_standby", "rcx_final", "idle"}
           /\ nfetch' = nfetch /\ npos' = npos /\ nneg' = nneg)]_vars
  /\ [][(pc = "rcx_final") => (wlog' = wlog /\ reg' = reg /\ cs' = cs)]_vars

\* a returned call: three fetches between measure and standby
C16_Witness ==
  /\ Returned({"read_continuos_xyz"})
  /\ wlog = RcxWrites
  /\ nfetch = 3 /\ npos = 3 /\ nneg >= 1
  /\ Len(ret.buf) = 18

----------------------------------------------------------------------------
(* The fixed-count modes and the polled modes, with a device that raises
   data-ready again and again *)

NextFair ==
  \/ call_set_sampling_rate(SpecRates)
  \/ call_set_g_range(SpecRanges)
  \/ call_read_many_xyz
  \/ call_read_many_xyz_fromfifo
  \/ call_read_continuos_xyz
  \/ set_power_mode
  \/ set_g_range
  \/ set_sampling_rate
  \/ set_fifo_mode
  \/ spi_write
  \/ write_return
  \/ spi_read
  \/ poll_read
  \/ spi_readinto
  \/ spi_fault
  \/ rmx_begin
  \/ rmx_clear_return
  \/ rmx_while
  \/ rmx_poll_return
  \/ rmx_ready
  \/ rmx_fetch_return
  \/ rmx_final
  \/ rmf_begin
  \/ rmf_while
  \/ rmf_fetch_return
  \/ rmf_final
  \/ rcx_begin
  \/ rcx_while
  \/ rcx_poll_return
  \/ rcx_ready
  \/ rcx_fetch_return
  \/ rcx_final

\* a status poll that reads the data-ready flag as 1
DataReady == poll_read /\ rx' = 1

\* the program runs on; data-ready is raised at some poll again and again
SpecFair ==
  InitDriver /\ [][NextFair]_vars /\ WF_vars(NextFair) /\ SF_vars(DataReady)

\* the call was ended by an exception of the bus transfer
BusFailed == pc = "idle" /\ outcome = "BusError"

RmfBody == {"rmf_begin", "rmf_while", "rmf_fetch"}

\* C17: read_many_xyz_fromfifo(n) issues sample fetches only (no status read
\* of any kind), never writes a register or changes the tracked
\* configuration, leaves its loop after exactly n fetches, which it always
\* does unless a transfer raises, and a call that returns returns 6n bytes.
C17_FixedCountDrain ==
  /\ [](op.name = "read_many_xyz_fromfifo" =>
          /\ pc \in RmfBody \cup {"rmf_final", "idle"}
          /\ npos = 0 /\ nneg = 0
          /\ wlog = <<>> /\ tracked = pre
          /\ nfetch <= op.arg[1]
          /\ pc = "rmf_final" => (nfetch = op.arg[1] /\ n_act_meas = op.arg[1])
          /\ Returned({"read_many_xyz_fromfifo"}) =>
               (nfetch = op.arg[1] /\ Len(ret.buf) = 6 * op.arg[1]))
  /\ [][(op.name = "read_many_xyz_fromfifo" /\ op' = op) => reg' = reg]_vars
  /\ (pc \in RmfBody ~> (pc = "rmf_final" \/ BusFailed))

\* three fetches, no poll, no write, 18 bytes returned
C17_Witness ==
  /\ Returned({"read_many_xyz_fromfifo"})
  /\ op.arg = <<3>>
  /\ nfetch = 3 /\ npos = 0 /\ nneg = 0 /\ wlog = <<>>
  /\ ret.buf = <<1, 1, 1, 1, 1, 1, 2, 2, 2, 2, 2, 2, 3, 3, 3, 3, 3, 3>>

RmxLoop == {"rmx_while", "rmx_poll", "rmx_ready", "rmx_fetch"}

\* C18: with data-ready raised again and again, the loops of read_many_xyz
\* and read_continuos_xyz are left, unless a transfer raises, and they are
\* left with the accepted count equal to the target; read_many_xyz makes one
\* throwaway sample read, which touches neither the buffer nor the counts,
\* between its start and its first poll.
C18_PolledLoopsFinish ==
  /\ (pc \in RmxLoop \cup {"rmx_begin", "rmx_clear"} ~> (pc = "rmx_final" \/ BusFailed))
  /\ (pc \in RcxLoop ~> (pc = "rcx_standby" \/ BusFailed))
  /\ [](pc = "rmx_final" => (n_act_meas = op.arg[1] /\ nfetch = op.arg[1]))
  /\ [](pc = "rcx_standby" =>
          /\ n_exp_meas = TargetCount(op.arg[1], tracked.sampling_rate[1])
          /\ n_act_meas = n_exp_meas /\ nfetch = n_exp_meas)
  /\ [](pc = "rmx_clear" =>
          /\ nfetch = 0 /\ npos = 0 /\ nneg = 0 /\ n_act_meas = 0
          /\ buf = Zeros(7 * op.arg[1]))
  /\ [][(pc' = "rmx_clear" /\ pc # "rmx_clear") => pc = "rmx_begin"]_vars
  /\ [][(pc' \in RmxLoop /\ pc \notin RmxLoop) =>
          (pc = "rmx_clear" /\ bus = "done" /\ pc' = "rmx_while"
           /\ buf' = buf /\ nfetch' = 0)]_vars
  /\ [][(pc' = "rmx_poll" /\ pc # "rmx_poll") => pc = "rmx_while"]_vars

\* read_many_xyz(3) has left its loop after negative polls, three accepted
C18_Witness ==
  /\ pc = "rmx_final"
  /\ op.arg = <<3>>
  /\ n_act_meas = 3 /\ npos = 3 /\ nneg >= 2

----------------------------------------------------------------------------
(* Buffer bounds *)

\* C19: in every acquisition mode a sample fetch reads into the full 7-byte
\* slot [7i, 7i + 7) of the raw buffer, i the accepted count at the time of
\* the fetch, and the slot lies entirely inside the allocated buffer.
C19_FetchSlotInsideBuffer ==
  pc \in FetchAt => 7 * n_act_meas + 7 <= Len(buf)

----------------------------------------------------------------------------
(* Zero target *)

\* read_continuos_xyz was called with the rate and the range configured and
\* a duration whose target count is 0, and no transfer raised
ZeroTargetCallEnded ==
  /\ Ended({"read_continuos_xyz"})
  /\ outcome # "BusError"
  /\ pre.sampling_rate # <<>> /\ pre.g_range # <<>>
  /\ TargetCount(op.arg[1], pre.sampling_rate[1]) = 0

\* C20: read_continuos_xyz with a target count of 0 completes without an
\* error, issues no poll and no fetch, leaves the device in standby and
\* returns an empty buffer and an empty timestamp list.
C20_ZeroTargetReturnsEmpty ==
  ZeroTargetCallEnded =>
     /\ outcome = "returned"
     /\ ret = [buf |-> <<>>, T |-> <<>>]
     /\ npos = 0 /\ nneg = 0 /\ nfetch = 0
     /\ reg[regaddr_pwr] = <<0>>

====
